---- MODULE Spec2Model ----
(***************************************************************************)
(* pyuvm TLM interfaces (src/pyuvm/uvm_tlm_interfaces.py): the capability  *)
(* (imp) classes, the ports and their connect(), and the FIFO exports that *)
(* delegate to a queue.Queue.                                              *)
(*                                                                         *)
(* Two specifications:                                                     *)
(*   Spec     - the objects as the module's own constructors leave them:   *)
(*              ports, connect(), calls through ports, construction of the *)
(*              FIFO and of its export classes.                            *)
(*   ChanSpec - the bodies of the PutExport / GetPeekExport methods run by *)
(*              concurrent threads against one queue.Queue held in the     *)
(*              attribute the methods dereference, a step per access to    *)
(*              the queue's lock, conditions and deque.                    *)
(***************************************************************************)
EXTENDS Integers, Sequences, FiniteSets, TLC

(***************************************************************************)
(* Bounds                                                                  *)
(***************************************************************************)
MaxChan == 1
NumThreads == 3
MaxPuts == 2
MaxCap == 1

\* the items threads put: the k-th put that is made carries item k, so that a
\* loss, a duplicate or a swap shows in what the gets return
Items == 1..MaxPuts

(***************************************************************************)
(* Values returned or raised by a call                                     *)
(***************************************************************************)
Raise(e) == [kind |-> "raise", exc |-> e, type |-> "none", val |-> 0]
RetNone == [kind |-> "return", exc |-> "", type |-> "none", val |-> 0]
RetBool(b) == [kind |-> "return", exc |-> "", type |-> "bool", val |-> IF b THEN 1 ELSE 0]
RetItem(x) == [kind |-> "return", exc |-> "", type |-> "item", val |-> x]
Blocked == [kind |-> "blocked", exc |-> "", type |-> "none", val |-> 0]

(***************************************************************************)
(* 12.2.7 the imp classes: bases and abstract methods                      *)
(***************************************************************************)
ImpTypes ==
    {"uvm_blocking_put_imp", "uvm_nonblocking_put_imp", "uvm_put_imp",
     "uvm_blocking_get_imp", "uvm_nonblocking_get_imp", "uvm_analysis_imp",
     "uvm_get_imp", "uvm_blocking_peek_imp", "uvm_nonblocking_peek_imp",
     "uvm_peek_imp", "uvm_blocking_get_peek_imp",
     "uvm_nonblocking_get_peek_imp", "uvm_get_peek_imp",
     "uvm_blocking_transport_imp", "uvm_non_blocking_transport_imp",
     "uvm_transport_imp", "uvm_blocking_master_imp",
     "uvm_nonblocking_master_imp", "uvm_master_imp",
     "uvm_blocking_slave_imp", "uvm_nonblocking_slave_imp", "uvm_slave_imp"}

\* the methods a class body declares with @abstractmethod
OwnMethods(c) ==
    CASE c = "uvm_blocking_put_imp" -> {"put"}
      [] c = "uvm_nonblocking_put_imp" -> {"try_put", "can_put"}
      [] c = "uvm_blocking_get_imp" -> {"get"}
      [] c = "uvm_nonblocking_get_imp" -> {"try_get", "can_get"}
      [] c = "uvm_analysis_imp" -> {"write"}
      [] c = "uvm_blocking_peek_imp" -> {"peek"}
      [] c = "uvm_nonblocking_peek_imp" -> {"try_peek", "can_peek"}
      [] c = "uvm_blocking_transport_imp" -> {"transport"}
      [] c = "uvm_non_blocking_transport_imp" -> {"nb_transport"}
      [] OTHER -> {}

\* the base classes named in a class statement (ABC itself left out)
Bases(c) ==
    CASE c = "uvm_put_imp" -> {"uvm_blocking_put_imp", "uvm_nonblocking_put_imp"}
      [] c = "uvm_get_imp" -> {"uvm_blocking_get_imp", "uvm_nonblocking_get_imp"}
      [] c = "uvm_peek_imp" -> {"uvm_blocking_peek_imp", "uvm_nonblocking_peek_imp"}
      [] c = "uvm_blocking_get_peek_imp" -> {"uvm_blocking_get_imp", "uvm_blocking_peek_imp"}
      [] c = "uvm_nonblocking_get_peek_imp" -> {"uvm_nonblocking_get_imp", "uvm_nonblocking_peek_imp"}
      [] c = "uvm_get_peek_imp" -> {"uvm_get_imp", "uvm_peek_imp"}
      [] c = "uvm_transport_imp" -> {"uvm_blocking_transport_imp", "uvm_non_blocking_transport_imp"}
      [] c = "uvm_blocking_master_imp" -> {"uvm_blocking_put_imp", "uvm_blocking_get_peek_imp"}
      [] c = "uvm_nonblocking_master_imp" -> {"uvm_nonblocking_put_imp", "uvm_nonblocking_get_peek_imp"}
      [] c = "uvm_master_imp" -> {"uvm_nonblocking_master_imp", "uvm_blocking_master_imp"}
      [] c = "uvm_blocking_slave_imp" -> {"uvm_blocking_put_imp", "uvm_blocking_get_peek_imp"}
      [] c = "uvm_nonblocking_slave_imp" -> {"uvm_nonblocking_put_imp", "uvm_nonblocking_get_peek_imp"}
      [] c = "uvm_slave_imp" -> {"uvm_nonblocking_slave_imp", "uvm_blocking_slave_imp"}
      \* the FIFO's export classes
      [] c = "PutExport" -> {"uvm_put_imp"}
      [] c = "GetPeekExport" -> {"uvm_get_peek_imp"}
      \* a provider component written against the put and get contracts
      [] c = "fifo_provider" -> {"uvm_put_imp", "uvm_get_imp"}
      \* a provider component written against the put contract
      [] c = "sink_provider" -> {"uvm_put_imp"}
      [] OTHER -> {}

RECURSIVE Ancestors(_)
\* the class and everything it inherits from (its MRO, as a set)
Ancestors(c) == {c} \cup UNION {Ancestors(b) : b \in Bases(c)}

\* the abstract methods a class collects from its MRO
ImpMethods(c) == UNION {OwnMethods(a) : a \in Ancestors(c)}

\* names in the order dir() lists them (sorted)
MethodOrder ==
    <<"can_get", "can_peek", "can_put", "get", "nb_transport", "peek",
      "put", "transport", "try_get", "try_peek", "try_put", "write">>

Methods == {MethodOrder[i] : i \in 1..Len(MethodOrder)}

IsMethodOf(c, m) == m \in ImpMethods(c)

\* a list of the methods of the class body alone
uvm_methods_OwnOnly(imp) == SelectSeq(MethodOrder, LAMBDA m : m \in OwnMethods(imp))

\* uvm_port_base.__init__: the function attributes of imp_type, in dir() order
uvm_methods(imp) == SelectSeq(MethodOrder, LAMBDA m : IsMethodOf(imp, m))

\* the two tables above, computed once per class
ImpMethodsOf == [c \in ImpTypes \cup {"PutExport", "GetPeekExport"} |-> ImpMethods(c)]
UvmMethodsOf == [c \in ImpTypes |-> uvm_methods(c)]


(***************************************************************************)
(* Objects                                                                 *)
(***************************************************************************)
Ports == {"pp", "gp"}

\* what the port classes hand to uvm_port_base.__init__
imp_type(p) == IF p = "pp" THEN "uvm_put_imp" ELSE "uvm_get_imp"

\* a provider component over the put and get contracts, a component that
\* implements only can_put, a component over the put contract that keeps
\* nothing, and an instance of the FIFO's PutExport
Providers == {"e_fifo", "e_part", "e_sink"}
Exports == Providers \cup {"pe", "gp"}

\* the objects connect() is tried with: everything on the put port, the
\* provider of the get contract and the partial provider on the get port
ExportsFor(p) == IF p = "pp" THEN Exports ELSE {"e_fifo", "e_part"}

ClassOf(o) ==
    CASE o = "e_fifo" -> "fifo_provider"
      [] o = "e_part" -> "part_provider"
      [] o = "e_sink" -> "sink_provider"
      [] o = "pe" -> "PutExport"
      [] o = "pp" -> "uvm_put_port"
      [] o = "gp" -> "uvm_get_port"

\* uvm_component gives its subclasses full_name; PutExport extends only the imp
HasFullName(o) == o \in Providers \cup Ports
FullName(o) == o
\* a Provider carries the reverse map; a port carries connected_to only
HasProvidedTo(o) == o \in Providers

NoEntry == "<none>"
Names == {FullName(o) : o \in {x \in Exports : HasFullName(x)}}

VARIABLES
    connected_to,      \* port -> (full name -> export)
    provided_to,       \* provider -> (full name -> port)
    port_export,       \* port -> the value of its _uvm_port_base__export
    port_method,       \* port -> (method name -> the object whose method is bound)
    connected_ok,      \* port -> some connect() on it returned without raising
    chan,              \* the buffer behind e_fifo
    fifo,              \* what uvm_tlm_fifo_base.__init__ left behind
    export_queue_set,  \* the export instances hold a Queue in self.__queue
    last,              \* the most recent call and how it ended
    \* ---- the queue.Queue shared by the exports, and the calling threads
    maxsize,           \* Queue.maxsize
    buf,               \* Queue.queue, the deque
    mutex,             \* Queue.mutex is locked
    not_empty,         \* the threads waiting on Queue.not_empty, oldest first
    not_full,          \* the threads waiting on Queue.not_full, oldest first
    pc,                \* thread -> where it stands in its call
    call,              \* thread -> the export method it is in
    arg,               \* thread -> the item of its put
    loc,               \* thread -> what its call has computed so far
    ret,               \* the call that ended last, and how
    accepted,          \* the items appended to the deque, in order
    delivered          \* the items taken off the deque, in order

bindvars == <<connected_to, provided_to, port_export, port_method, connected_ok,
              chan, fifo, last>>
chanvars == <<maxsize, buf, mutex, not_empty, not_full, pc, call, arg, loc, ret,
              accepted, delivered>>
vars == <<bindvars, export_queue_set, chanvars>>

(***************************************************************************)
(* Attribute lookup                                                        *)
(***************************************************************************)
\* line 236 runs inside the class body: self.__export is stored mangled
StoredExportAttr == "_uvm_port_base__export"
MangledExportAttr == "_uvm_port_base__export"
\* line 240 runs inside exec(): the text self.__export is compiled outside
\* the class and keeps its name
ExecExportAttr == "__export"

\* the instance attributes of a port
PortAttrs(p, pexp, ptbl) ==
    {"connected_to", "_imp_type", "uvm_methods"}
        \cup (IF pexp[p] # NoEntry THEN {StoredExportAttr} ELSE {})
        \cup {m \in Methods : ptbl[p][m] # NoEntry}

\* the methods an object answers to
HasAttr(o, m, ptbl) ==
    CASE o = "e_fifo" -> m \in {"put", "try_put", "can_put", "get", "try_get", "can_get"}
      [] o = "e_part" -> m = "can_put"
      [] o = "e_sink" -> m \in {"put", "try_put", "can_put"}
      [] o = "pe" -> m \in {"put", "can_put", "try_put"}
      [] OTHER -> ptbl[o][m] # NoEntry

\* the object behind the bound method o.m
MethodTarget(o, m, ptbl) == IF o \in Ports THEN ptbl[o][m] ELSE o

isinstance(o, imp) == imp \in Ancestors(ClassOf(o))

\* the provider implements every operation of the capability set
Conforms(o, imp, ptbl) == \A m \in ImpMethodsOf[imp] : HasAttr(o, m, ptbl)

(***************************************************************************)
(* uvm_port_base.connect                                                   *)
(***************************************************************************)
RECURSIVE BindFrom(_, _, _, _, _)
\* lines 239-240: for method in self.uvm_methods: exec('self.m=self.__export.m')
BindFrom(p, e, i, pexp, ptbl) ==
    IF i > Len(UvmMethodsOf[imp_type(p)])
    THEN [table |-> ptbl, raised |-> ""]
    ELSE LET m == UvmMethodsOf[imp_type(p)][i] IN
         IF ExecExportAttr \notin PortAttrs(p, pexp, ptbl)
         THEN [table |-> ptbl, raised |-> "AttributeError"]
         ELSE IF ~HasAttr(e, m, ptbl)
         THEN [table |-> ptbl, raised |-> "AttributeError"]
         ELSE BindFrom(p, e, i + 1, pexp,
                       [ptbl EXCEPT ![p][m] = MethodTarget(e, m, ptbl)])

\* line 235: the value of isinstance() is computed and dropped
TypeCheckRaises(p, e) == LET ok == isinstance(e, imp_type(p)) IN FALSE

\* a connect() that starts both maps afresh
ConnectResult_Replace(p, e) ==
    LET pexp == [port_export EXCEPT ![p] = e]
        same == [cto |-> connected_to, pto |-> provided_to, pexp |-> port_export,
                 ptbl |-> port_method]
    IN
    IF TypeCheckRaises(p, e)
    THEN [same EXCEPT !.pexp = port_export] @@ [res |-> Raise("TypeError")]
    ELSE IF ~HasFullName(e)
    THEN [same EXCEPT !.pexp = pexp] @@ [res |-> Raise("AttributeError")]
    ELSE LET cto == [connected_to EXCEPT
                        ![p] = [n \in Names |-> IF n = FullName(e) THEN e ELSE NoEntry]] IN
    IF ~HasProvidedTo(e)
    THEN [same EXCEPT !.pexp = pexp, !.cto = cto] @@ [res |-> Raise("AttributeError")]
    ELSE LET pto == [provided_to EXCEPT
                        ![e] = [n \in Ports |-> IF n = FullName(p) THEN p ELSE NoEntry]]
             b == BindFrom(p, e, 1, pexp, port_method)
         IN [cto |-> cto, pto |-> pto, pexp |-> pexp, ptbl |-> b.table,
             res |-> IF b.raised = "" THEN RetNone ELSE Raise(b.raised)]

\* what connect(p, e) leaves behind, statement by statement
ConnectResult(p, e) ==
    LET pexp == [port_export EXCEPT ![p] = e]
        same == [cto |-> connected_to, pto |-> provided_to, pexp |-> port_export,
                 ptbl |-> port_method]
    IN
    IF TypeCheckRaises(p, e)
    THEN [same EXCEPT !.pexp = port_export] @@ [res |-> Raise("TypeError")]
    ELSE IF ~HasFullName(e)
    THEN [same EXCEPT !.pexp = pexp] @@ [res |-> Raise("AttributeError")]
    ELSE LET cto == [connected_to EXCEPT ![p][FullName(e)] = e] IN
    IF ~HasProvidedTo(e)
    THEN [same EXCEPT !.pexp = pexp, !.cto = cto] @@ [res |-> Raise("AttributeError")]
    ELSE LET pto == [provided_to EXCEPT ![e][FullName(p)] = p]
             b == BindFrom(p, e, 1, pexp, port_method)
         IN [cto |-> cto, pto |-> pto, pexp |-> pexp, ptbl |-> b.table,
             res |-> IF b.raised = "" THEN RetNone ELSE Raise(b.raised)]


(***************************************************************************)
(* queue.Queue, as the exports use it                                      *)
(***************************************************************************)
\* Queue.full() and the test in Queue.put: 0 < maxsize <= qsize
QueueFull(ms, b) == ms > 0 /\ Len(b) >= ms
\* Queue.empty() and the test in Queue.get: not qsize
QueueEmpty(b) == Len(b) = 0
\* Queue._put: deque.append
QueuePutItem(b, x) == Append(b, x)
\* Queue._get: deque.popleft
QueueGetItem(b) == [item |-> Head(b), rest |-> Tail(b)]
\* Condition.notify(): the longest waiting thread leaves the waiters
Notify(waiters) ==
    IF waiters = <<>> THEN [woken |-> {}, rest |-> <<>>]
    ELSE [woken |-> {Head(waiters)}, rest |-> Tail(waiters)]

\* Queue.mutex is a plain threading.Lock: it has no owner. Condition._is_owned
\* tries a non-blocking acquire and takes the lock for owned when that fails,
\* whichever thread holds it.
ConditionOwned(locked) == locked

\* Lock.release(): any thread may release a locked lock; releasing an unlocked
\* one raises
LockRelease(locked) == IF locked THEN "" ELSE "RuntimeError"

\* Condition.wait() and Condition.notify() start with the _is_owned test
ConditionCheck(locked) == IF ConditionOwned(locked) THEN "" ELSE "RuntimeError"

(***************************************************************************)
(* The FIFO's exports: what a call decides at its test of the buffer       *)
(*   do = "wait"   the caller waits on the queue's condition               *)
(*   do = "put"    the item is appended, not_empty notified, res returned  *)
(*   do = "take"   the head is removed, not_full notified, and returned    *)
(*   do = "done"   res is returned (or raised), the buffer is untouched    *)
(*   do = "read"   peek leaves its loop and reads the head                 *)
(***************************************************************************)
\* self.__queue inside PutExport / GetPeekExport: an instance on which
\* nothing stored the mangled attribute has none
QueueAttrError == Raise("AttributeError")

\* PutExport.put: self.__queue.put(item)
PutExport_put(ms, b) ==
    IF QueueFull(ms, b) THEN [do |-> "wait", res |-> Blocked]
    ELSE [do |-> "put", res |-> RetNone]

\* PutExport.try_put: put_nowait, QueueFull caught
PutExport_try_put(ms, b) ==
    IF QueueFull(ms, b) THEN [do |-> "done", res |-> RetBool(FALSE)]
    ELSE [do |-> "put", res |-> RetBool(TRUE)]

\* a can_put that answers full()
PutExport_can_put_Inverted(ms, b) == [do |-> "done", res |-> RetBool(QueueFull(ms, b))]

\* PutExport.can_put
PutExport_can_put(ms, b) == [do |-> "done", res |-> RetBool(~QueueFull(ms, b))]

\* GetPeekExport.get: self.__queue.get()
GetPeekExport_get(b) ==
    IF QueueEmpty(b) THEN [do |-> "wait", res |-> Blocked]
    ELSE [do |-> "take", res |-> RetItem(QueueGetItem(b).item)]

\* GetPeekExport.try_get: get_nowait, QueueEmpty caught
GetPeekExport_try_get(b) ==
    IF QueueEmpty(b) THEN [do |-> "done", res |-> RetNone]
    ELSE [do |-> "take", res |-> RetItem(QueueGetItem(b).item)]

\* GetPeekExport.can_get
GetPeekExport_can_get(b) == [do |-> "done", res |-> RetBool(~QueueEmpty(b))]

\* GetPeekExport.peek, line 338: the loop test, empty() under the mutex
GetPeekExport_peek_check(b) ==
    IF QueueEmpty(b) THEN [do |-> "wait", res |-> Blocked]
    ELSE [do |-> "read", res |-> Blocked]

\* a peek that reads the tail of the deque
GetPeekExport_peek_read_Last(b) ==
    IF Len(b) = 0 THEN [do |-> "done", res |-> Raise("IndexError")]
    ELSE [do |-> "done", res |-> RetItem(b[Len(b)])]

\* GetPeekExport.peek, lines 340-341: queue_data[0], no mutex held
GetPeekExport_peek_read(b) ==
    IF Len(b) = 0 THEN [do |-> "done", res |-> Raise("IndexError")]
    ELSE [do |-> "done", res |-> RetItem(b[1])]


(***************************************************************************)
(* Calls on the objects a port can be connected to                         *)
(***************************************************************************)
TakesItem(m) == m \in {"put", "try_put", "write"}

\* the arguments a call of m is tried with: the item of the spec's scenarios
\* (put(1)) for the methods that take one
ArgsOf(m) == IF TakesItem(m) THEN {1} ELSE {0}

\* the methods an object of the set Exports has before any connect()
OwnAttrs(o) == {m \in Methods : o \notin Ports /\ HasAttr(o, m, <<>>)}

\* e_fifo: a provider component that keeps its items in a list of its own
ProviderFifoCall(m, x, ch) ==
    CASE m = "put" -> [res |-> RetNone, chan |-> Append(ch, x)]
      [] m = "try_put" -> [res |-> RetBool(TRUE), chan |-> Append(ch, x)]
      [] m = "can_put" -> [res |-> RetBool(TRUE), chan |-> ch]
      [] m = "get" -> IF ch = <<>> THEN [res |-> Blocked, chan |-> ch]
                      ELSE [res |-> RetItem(Head(ch)), chan |-> Tail(ch)]
      [] m = "try_get" -> IF ch = <<>> THEN [res |-> RetNone, chan |-> ch]
                          ELSE [res |-> RetItem(Head(ch)), chan |-> Tail(ch)]
      [] m = "can_get" -> [res |-> RetBool(ch # <<>>), chan |-> ch]

\* e_sink: a provider component that accepts every item and keeps none
ProviderSinkCall(m) == IF m = "put" THEN RetNone ELSE RetBool(TRUE)

\* pe: a PutExport instance called outside any thread of ChanSpec
PutExportCall(m, x, hasq, ms, b) ==
    IF ~hasq THEN [res |-> QueueAttrError, buf |-> b]
    ELSE LET o == CASE m = "put" -> PutExport_put(ms, b)
                    [] m = "try_put" -> PutExport_try_put(ms, b)
                    [] m = "can_put" -> PutExport_can_put(ms, b)
         IN [res |-> o.res, buf |-> IF o.do = "put" THEN QueuePutItem(b, x) ELSE b]

\* o.m(x) for an object o that has the method
ProviderInvoke(o, m, x, ch, hasq, ms, b) ==
    CASE o = "e_fifo" -> ProviderFifoCall(m, x, ch) @@ [buf |-> b]
      [] o = "e_part" -> [res |-> RetBool(FALSE), chan |-> ch, buf |-> b]
      [] o = "e_sink" -> [res |-> ProviderSinkCall(m), chan |-> ch, buf |-> b]
      [] o = "pe" -> PutExportCall(m, x, hasq, ms, b) @@ [chan |-> ch]

\* port.m(x): the attribute m of the port instance, if connect() bound one
PortInvoke(p, m, x, pexp, ptbl, ch, hasq, ms, b) ==
    IF m \notin PortAttrs(p, pexp, ptbl)
    THEN [res |-> Raise("AttributeError"), chan |-> ch, buf |-> b]
    ELSE ProviderInvoke(ptbl[p][m], m, x, ch, hasq, ms, b)

\* export.m(x) called on the object last handed to connect()
DirectInvoke(e, m, x, ptbl, ch, hasq, ms, b) ==
    IF e = NoEntry \/ ~HasAttr(e, m, ptbl)
    THEN [res |-> Raise("AttributeError"), chan |-> ch, buf |-> b]
    ELSE ProviderInvoke(MethodTarget(e, m, ptbl), m, x, ch, hasq, ms, b)

(***************************************************************************)
(* Construction of the FIFO and of its export classes                      *)
(***************************************************************************)
\* names bound at module level, where a function body looks a bare name up
ModuleGlobals ==
    ImpTypes \cup {"uvm_port_base", "uvm_tlm_fifo_base", "uvm_component",
                   "Queue", "QueueFull", "QueueEmpty", "ABC", "abstractmethod",
                   "FunctionType"}

\* the methods the class body defines
ClassDefines(c) ==
    CASE c = "PutExport" -> {"put", "can_put", "try_put"}
      [] c = "GetPeekExport" -> {"get", "can_get", "try_get", "peek"}
      [] OTHER -> {}

\* ABC: the abstract methods no class body has overridden
AbstractLeft(c) == ImpMethodsOf[c] \ ClassDefines(c)

\* cls(): ABCs with abstract methods left cannot be instantiated
ExportNewResult(c) == IF AbstractLeft(c) # {} THEN Raise("TypeError") ELSE RetNone

NoFifo == [called |-> FALSE, queue |-> NoEntry, put_export |-> NoEntry,
           get_peek_export |-> NoEntry, exc |-> ""]

\* uvm_tlm_fifo_base.__init__, lines 344-346
FifoInitResult ==
    LET q == [NoFifo EXCEPT !.called = TRUE, !.queue = "None"] IN
    IF "PutExport" \notin ModuleGlobals
    THEN [q EXCEPT !.exc = "NameError"]
    ELSE IF ExportNewResult("PutExport").kind = "raise"
    THEN [q EXCEPT !.exc = ExportNewResult("PutExport").exc]
    ELSE [q EXCEPT !.put_export = "PutExport"]

(***************************************************************************)
(* Spec: ports, providers and connect()                                    *)
(***************************************************************************)
NoCall == [op |-> "none", port |-> NoEntry, obj |-> NoEntry, method |-> NoEntry,
           res |-> RetNone, fwd |-> TRUE]

Threads == 1..NumThreads

\* what a call has computed so far: the outcome of its test, the item it took
\* off the deque (0: none) and whether it has waited on a condition
NoLocal == [do |-> "", res |-> Blocked, took |-> 0, waited |-> FALSE]

\* the method that ended last, what it returned or raised, the item it had
\* taken off the deque (0: none) and whether it waited
NoReturn == [op |-> "none", res |-> RetNone, took |-> 0, waited |-> FALSE]

ChanVarsInit ==
    /\ buf = <<>>
    /\ mutex = FALSE
    /\ pc = [t \in Threads |-> "idle"]
    /\ call = [t \in Threads |-> "none"]
    /\ arg = [t \in Threads |-> 0]
    /\ loc = [t \in Threads |-> NoLocal]
    /\ ret = NoReturn
    /\ not_empty = <<>>
    /\ not_full = <<>>
    /\ accepted = <<>>
    /\ delivered = <<>>

BindVarsInit ==
    /\ connected_to = [p \in Ports |-> [n \in Names |-> NoEntry]]
    /\ provided_to = [e \in Providers |-> [n \in Ports |-> NoEntry]]
    /\ port_export = [p \in Ports |-> NoEntry]
    /\ port_method = [p \in Ports |-> [m \in Methods |-> NoEntry]]
    /\ connected_ok = [p \in Ports |-> FALSE]
    /\ chan = <<>>
    /\ fifo = NoFifo
    /\ last = NoCall

Init ==
    /\ BindVarsInit
    /\ export_queue_set = FALSE
    /\ maxsize = 0
    /\ ChanVarsInit

\* port.connect(export)
Connect(p, e) ==
    LET r == ConnectResult(p, e) IN
    /\ e \in ExportsFor(p)
    /\ connected_to' = r.cto
    /\ provided_to' = r.pto
    /\ port_export' = r.pexp
    /\ port_method' = r.ptbl
    /\ connected_ok' = [connected_ok EXCEPT ![p] = @ \/ r.res.kind = "return"]
    /\ last' = [NoCall EXCEPT !.op = "connect", !.port = p, !.obj = e, !.res = r.res]
    /\ UNCHANGED <<chan, fifo, export_queue_set, chanvars>>

\* port.m(x), for a method of the port's capability set
PortCall(p, m, x) ==
    LET r == PortInvoke(p, m, x, port_export, port_method, chan,
                        export_queue_set, maxsize, buf)
        d == DirectInvoke(port_export[p], m, x, port_method, chan,
                          export_queue_set, maxsize, buf)
    IN
    /\ m \in ImpMethodsOf[imp_type(p)]
    /\ x \in ArgsOf(m)
    /\ Len(r.chan) <= MaxChan
    /\ chan' = r.chan
    /\ buf' = r.buf
    /\ last' = [NoCall EXCEPT !.op = "port_call", !.port = p, !.obj = port_export[p],
                              !.method = m, !.res = r.res,
                              !.fwd = (r.res = d.res /\ r.chan = d.chan /\ r.buf = d.buf)]
    /\ UNCHANGED <<connected_to, provided_to, port_export, port_method, connected_ok,
                   fifo, export_queue_set, maxsize, mutex, not_empty, not_full,
                   pc, call, arg, loc, ret, accepted, delivered>>

\* o.m(x) called on the object itself
ProviderCall(o, m, x) ==
    LET r == ProviderInvoke(o, m, x, chan, export_queue_set, maxsize, buf) IN
    /\ o \in Providers \cup {"pe"}
    /\ m \in OwnAttrs(o)
    /\ x \in ArgsOf(m)
    /\ Len(r.chan) <= MaxChan
    /\ chan' = r.chan
    /\ buf' = r.buf
    /\ last' = [NoCall EXCEPT !.op = "call", !.obj = o, !.method = m, !.res = r.res]
    /\ UNCHANGED <<connected_to, provided_to, port_export, port_method, connected_ok,
                   fifo, export_queue_set, maxsize, mutex, not_empty, not_full,
                   pc, call, arg, loc, ret, accepted, delivered>>

\* uvm_tlm_fifo_base(name, parent)
FifoInit ==
    /\ fifo' = FifoInitResult
    /\ last' = [NoCall EXCEPT !.op = "fifo_init", !.obj = "uvm_tlm_fifo_base",
                              !.res = IF FifoInitResult.exc = "" THEN RetNone
                                      ELSE Raise(FifoInitResult.exc)]
    /\ UNCHANGED <<connected_to, provided_to, port_export, port_method, connected_ok,
                   chan, export_queue_set, chanvars>>

\* uvm_tlm_fifo_base.PutExport() / uvm_tlm_fifo_base.GetPeekExport()
ExportNew(c) ==
    /\ last' = [NoCall EXCEPT !.op = "new", !.obj = c, !.res = ExportNewResult(c)]
    /\ UNCHANGED <<connected_to, provided_to, port_export, port_method, connected_ok,
                   chan, fifo, export_queue_set, chanvars>>

Next ==
    \/ \E p \in Ports : \E e \in ExportsFor(p) : Connect(p, e)
    \/ \E p \in Ports : \E m \in ImpMethodsOf[imp_type(p)] : \E x \in ArgsOf(m) :
           PortCall(p, m, x)
    \/ \E o \in Providers \cup {"pe"} : \E m \in OwnAttrs(o) : \E x \in ArgsOf(m) :
           ProviderCall(o, m, x)
    \/ FifoInit
    \/ \E c \in {"PutExport", "GetPeekExport"} : ExportNew(c)

Spec == Init /\ [][Next]_vars


(***************************************************************************)
(* Claims about connect() and the ports                                    *)
(***************************************************************************)
\* the binding of port p to the provider last handed to connect() is on record
\* on both sides and the provider satisfies the port's capability set
ValidlyConnected(p) ==
    /\ port_export[p] \in Providers
    /\ Conforms(port_export[p], imp_type(p), port_method)
    /\ connected_to[p][FullName(port_export[p])] = port_export[p]
    /\ provided_to[port_export[p]][FullName(p)] = p

\* C3: connect(provider) returns normally exactly when the provider implements
\* every operation of the port's capability set, and raises a type-mismatch
\* error when it does not.
C3_ConnectSucceedsIffConforms ==
    last.op = "connect" =>
        /\ (last.res.kind = "return")
               <=> Conforms(last.obj, imp_type(last.port), port_method)
        /\ ~Conforms(last.obj, imp_type(last.port), port_method)
               => last.res = Raise("TypeError")

\* C4: a connect() whose provider does not satisfy the capability set leaves
\* connected_to, provided_to and the port's method table as they were.
C4_FailedConnectChangesNothing ==
    [][(last'.op = "connect"
          /\ ~Conforms(last'.obj, imp_type(last'.port), port_method))
        => UNCHANGED <<connected_to, provided_to, port_method>>]_vars

\* C5: a call of a capability operation on a port on which no connect() has
\* returned normally raises an error and leaves every buffer as it was.
C5_UnboundPortRaises ==
    [][(last'.op = "port_call" /\ ~connected_ok'[last'.port])
        => (last'.res.kind = "raise" /\ chan' = chan /\ buf' = buf)]_vars

\* C5 witness: connect() was tried on the port with a provider, did not return
\* normally, and the call through the port raised.
C5_Witness ==
    /\ last.op = "port_call"
    /\ ~connected_ok[last.port]
    /\ port_export[last.port] \in Providers
    /\ last.res = Raise("AttributeError")

\* C6: after connect() with a provider that satisfies the capability set, a call
\* through the port returns what the same call on the provider returns and has
\* the same effect; put(1) returns and leaves one item in the provider's buffer.
C6_PortForwardsToProvider ==
    (last.op = "port_call" /\ ValidlyConnected(last.port)) =>
        /\ last.fwd
        /\ (last.method = "put" /\ port_export[last.port] = "e_fifo")
               => (last.res = RetNone /\ Len(chan) >= 1)

\* C7: e is in p's connected_to under e's name exactly when p is in e's
\* provided_to under p's name.
C7_BindingRecordedOnBothSides ==
    \A p \in Ports : \A e \in {x \in Exports : HasFullName(x)} :
        (connected_to[p][FullName(e)] = e)
            <=> (HasProvidedTo(e) /\ provided_to[e][FullName(p)] = p)

\* C8: a constructed FIFO has a put provider and a get/peek provider that work
\* on one shared buffer, so that an item put through one is the item got
\* through the other.
C8_FifoProvidersShareOneBuffer ==
    fifo.called =>
        /\ fifo.exc = ""
        /\ fifo.put_export # NoEntry
        /\ fifo.get_peek_export # NoEntry
        /\ fifo.queue = "Queue"




\* C13: both export classes of the FIFO can be instantiated, and none of the
\* operations of the capability set they extend is left abstract.
C13_ProvidersComplete ==
    last.op = "new" => (last.res = RetNone /\ AbstractLeft(last.obj) = {})

NonBlockingOps == {"try_put", "try_get", "try_peek", "can_put", "can_get", "can_peek"}

\* C15: every non-blocking operation of an export's capability set has a body
\* in the export class, so that a call of it returns.
C15_NonBlockingOpsReturn ==
    last.op = "new" =>
        \A m \in NonBlockingOps \cap ImpMethodsOf[last.obj] : m \in ClassDefines(last.obj)

\* the capability classes built from other capability classes
Composites == {c \in ImpTypes : Bases(c) # {}}

\* C16: the operations a composite capability class requires are the union of
\* the operations its parts require, and the list a port derives from the
\* class holds each of them once and nothing else; the operations bound on a
\* port are operations of its list.
C16_CompositionIsUnion ==
    /\ \A c \in Composites :
          /\ ImpMethodsOf[c] = UNION {ImpMethodsOf[b] : b \in Bases(c)}
          /\ {UvmMethodsOf[c][i] : i \in 1..Len(UvmMethodsOf[c])} = ImpMethodsOf[c]
          /\ Len(UvmMethodsOf[c]) = Cardinality(ImpMethodsOf[c])
    /\ \A p \in Ports : \A m \in Methods :
          port_method[p][m] # NoEntry => m \in ImpMethodsOf[imp_type(p)]

\* C16 witness: connect() has walked the operation list of a port whose
\* capability class is a composite.
C16_Witness ==
    /\ last.op = "connect"
    /\ imp_type(last.port) \in Composites
    /\ Len(UvmMethodsOf[imp_type(last.port)]) > 1

\* connect(e1) and then connect(e2) were called on port p, with two providers
\* that implement the port's capability set
Rebound(p, e1, e2) ==
    /\ e1 # e2
    /\ Conforms(e1, imp_type(p), port_method)
    /\ Conforms(e2, imp_type(p), port_method)
    /\ connected_to[p][FullName(e1)] = e1
    /\ port_export[p] = e2

\* C18: after connect(e1) and connect(e2) a call through the port does what
\* the call on e2 does, connected_to holds e1 and e2, and e1's provided_to
\* still holds the port.
C18_RebindingForwardsToLast ==
    \A p \in Ports : \A e1 \in Providers, e2 \in Providers :
        Rebound(p, e1, e2) =>
            /\ connected_to[p][FullName(e2)] = e2
            /\ provided_to[e1][FullName(p)] = p
            /\ (last.op = "port_call" /\ last.port = p) => last.fwd

\* C19: no step removes or changes an entry of a connected_to or provided_to
\* map, and only connect() adds one: calls on ports and providers and the
\* constructors leave both maps as they were.
C19_BindingMapsMonotonic ==
    [][/\ \A p \in Ports, n \in Names :
             connected_to[p][n] # NoEntry => connected_to'[p][n] = connected_to[p][n]
       /\ \A e \in Providers, n \in Ports :
             provided_to[e][n] # NoEntry => provided_to'[e][n] = provided_to[e][n]
       /\ last'.op # "connect" => UNCHANGED <<connected_to, provided_to>>]_vars

\* C19 witness: a call through a port that was connected twice has run, and
\* both entries of its connected_to are still there.
C19_Witness ==
    /\ last.op = "port_call"
    /\ connected_to[last.port]["e_fifo"] = "e_fifo"
    /\ connected_to[last.port]["e_part"] = "e_part"
    /\ provided_to["e_fifo"][last.port] = last.port


(***************************************************************************)
(* ChanSpec: threads calling the exports' methods on one queue.Queue       *)
(*                                                                         *)
(* A call is a sequence of steps, one per access to the lock, to a         *)
(* condition or to the deque; the interpreter may switch threads between   *)
(* any two of them.                                                        *)
(*   acquire   entering "with self.mutex" (a call starts with it)          *)
(*   test      the test of the buffer (full, empty, maxsize)               *)
(*   wait      Condition.wait(): checks the lock, joins the waiters and    *)
(*             releases the lock                                           *)
(*   waiting   until a notify() takes the thread off the waiters           *)
(*   woken     Condition.wait() takes the lock again                       *)
(*   act       deque.append / deque.popleft                                *)
(*   notify    Condition.notify() on the other condition                   *)
(*   release   leaving the with block                                      *)
(*   peek_read peek's read of queue[0]                                     *)
(***************************************************************************)
ChanInit ==
    /\ BindVarsInit
    /\ export_queue_set = TRUE
    /\ maxsize \in 0..MaxCap
    /\ ChanVarsInit

PutCalls == {"put", "try_put"}
GetCalls == {"get", "try_get"}

\* the items that are in no put's hands and were never appended
FreeItems ==
    Items \ ({accepted[i] : i \in 1..Len(accepted)}
                \cup {arg[t] : t \in {u \in Threads : call[u] \in PutCalls}})

\* the item the next put carries
NextItem == CHOOSE x \in FreeItems : \A y \in FreeItems : x <= y

\* the call of thread t ends with res
Return(t, res) ==
    /\ ret' = [op |-> call[t], res |-> res, took |-> loc[t].took,
               waited |-> loc[t].waited]
    /\ pc' = [pc EXCEPT ![t] = "idle"]
    /\ call' = [call EXCEPT ![t] = "none"]
    /\ arg' = [arg EXCEPT ![t] = 0]
    /\ loc' = [loc EXCEPT ![t] = NoLocal]

\* thread t calls method c of an export: self.__queue is looked up, and the
\* Queue method enters its with block (Lock.acquire(): the call goes on once
\* the lock is free)
Begin(t, c, x) ==
    /\ pc[t] = "idle"
    /\ IF export_queue_set
       THEN /\ ~mutex
            /\ mutex' = TRUE
            /\ pc' = [pc EXCEPT ![t] = "test"]
            /\ call' = [call EXCEPT ![t] = c]
            /\ arg' = [arg EXCEPT ![t] = x]
            /\ UNCHANGED <<loc, ret>>
       ELSE /\ ret' = [NoReturn EXCEPT !.op = c, !.res = QueueAttrError]
            /\ UNCHANGED <<mutex, pc, call, arg, loc>>
    /\ UNCHANGED <<bindvars, export_queue_set, maxsize, buf, not_empty, not_full,
                   accepted, delivered>>

\* put_export.put(x)
Put(t, x) == FreeItems # {} /\ x = NextItem /\ Begin(t, "put", x)
\* put_export.try_put(x)
TryPut(t, x) == FreeItems # {} /\ x = NextItem /\ Begin(t, "try_put", x)
\* put_export.can_put()
CanPut(t) == Begin(t, "can_put", 0)
\* get_peek_export.get()
Get(t) == Begin(t, "get", 0)
\* get_peek_export.try_get()
TryGet(t) == Begin(t, "try_get", 0)
\* get_peek_export.can_get()
CanGet(t) == Begin(t, "can_get", 0)
\* get_peek_export.peek()
Peek(t) == Begin(t, "peek", 0)

\* peek's loop is back at Queue.empty(): Lock.acquire() on entering its with
\* block, which blocks while the lock is locked
Acquire(t) ==
    /\ pc[t] = "acquire"
    /\ ~mutex
    /\ mutex' = TRUE
    /\ pc' = [pc EXCEPT ![t] = "test"]
    /\ UNCHANGED <<bindvars, export_queue_set, maxsize, buf, not_empty, not_full,
                   call, arg, loc, ret, accepted, delivered>>

\* what the method decides on the buffer it sees
TestOutcome(c, ms, b) ==
    CASE c = "put" -> PutExport_put(ms, b)
      [] c = "try_put" -> PutExport_try_put(ms, b)
      [] c = "can_put" -> PutExport_can_put(ms, b)
      [] c = "get" -> GetPeekExport_get(b)
      [] c = "try_get" -> GetPeekExport_try_get(b)
      [] c = "can_get" -> GetPeekExport_can_get(b)
      [] c = "peek" -> GetPeekExport_peek_check(b)

\* the test of the buffer; peek's test is Queue.empty(), whose with block ends
\* before peek waits or reads
Test(t) ==
    LET o == TestOutcome(call[t], maxsize, buf) IN
    /\ pc[t] = "test"
    /\ loc' = [loc EXCEPT ![t].do = o.do, ![t].res = o.res]
    /\ pc' = [pc EXCEPT ![t] = CASE call[t] = "peek" -> "release"
                                 [] o.do = "wait" -> "wait"
                                 [] o.do \in {"put", "take"} -> "act"
                                 [] OTHER -> "release"]
    /\ UNCHANGED <<bindvars, export_queue_set, maxsize, buf, mutex, not_empty,
                   not_full, call, arg, ret, accepted, delivered>>

\* Condition.wait(): put waits on not_full, get and peek on not_empty. peek
\* calls it outside any with block: the RuntimeError ends the call at once,
\* and when some other thread holds the lock, wait() releases that lock.
Wait(t) ==
    /\ pc[t] = "wait"
    /\ IF ConditionCheck(mutex) # ""
       THEN IF call[t] = "peek"
            THEN /\ Return(t, Raise(ConditionCheck(mutex)))
                 /\ UNCHANGED <<mutex, not_empty, not_full>>
            ELSE /\ loc' = [loc EXCEPT ![t].res = Raise(ConditionCheck(mutex))]
                 /\ pc' = [pc EXCEPT ![t] = "release"]
                 /\ UNCHANGED <<mutex, not_empty, not_full, call, arg, ret>>
       ELSE /\ IF call[t] = "put"
               THEN not_full' = Append(not_full, t) /\ UNCHANGED not_empty
               ELSE not_empty' = Append(not_empty, t) /\ UNCHANGED not_full
            /\ mutex' = FALSE
            /\ pc' = [pc EXCEPT ![t] = "waiting"]
            /\ UNCHANGED <<call, arg, loc, ret>>
    /\ UNCHANGED <<bindvars, export_queue_set, maxsize, buf, accepted, delivered>>

\* the end of Condition.wait(): the notified thread takes the lock again. put
\* and get go back to their test; peek goes back to Queue.empty(), which
\* acquires the lock peek now holds.
Reacquire(t) ==
    /\ pc[t] = "woken"
    /\ ~mutex
    /\ mutex' = TRUE
    /\ loc' = [loc EXCEPT ![t].waited = TRUE]
    /\ pc' = [pc EXCEPT ![t] = IF call[t] = "peek" THEN "acquire" ELSE "test"]
    /\ UNCHANGED <<bindvars, export_queue_set, maxsize, buf, not_empty, not_full,
                   call, arg, ret, accepted, delivered>>

\* Queue._put / Queue._get on the deque; popleft on an empty deque raises
Act(t) ==
    /\ pc[t] = "act"
    /\ IF call[t] \in PutCalls
       THEN /\ buf' = QueuePutItem(buf, arg[t])
            /\ accepted' = Append(accepted, arg[t])
            /\ pc' = [pc EXCEPT ![t] = "notify"]
            /\ UNCHANGED <<loc, delivered>>
       ELSE IF QueueEmpty(buf)
       THEN /\ loc' = [loc EXCEPT ![t].res = Raise("IndexError")]
            /\ pc' = [pc EXCEPT ![t] = "release"]
            /\ UNCHANGED <<buf, accepted, delivered>>
       ELSE /\ buf' = QueueGetItem(buf).rest
            /\ delivered' = Append(delivered, QueueGetItem(buf).item)
            /\ loc' = [loc EXCEPT ![t].res = RetItem(QueueGetItem(buf).item),
                                  ![t].took = QueueGetItem(buf).item]
            /\ pc' = [pc EXCEPT ![t] = "notify"]
            /\ UNCHANGED accepted
    /\ UNCHANGED <<bindvars, export_queue_set, maxsize, mutex, not_empty, not_full,
                   call, arg, ret>>

\* not_empty.notify() after an append, not_full.notify() after a popleft
NotifyWaiter(t) ==
    LET cond == IF call[t] \in PutCalls THEN not_empty ELSE not_full
        n == Notify(cond)
    IN
    /\ pc[t] = "notify"
    /\ IF ConditionCheck(mutex) # ""
       THEN /\ loc' = [loc EXCEPT ![t].res = Raise(ConditionCheck(mutex))]
            /\ pc' = [pc EXCEPT ![t] = "release"]
            /\ UNCHANGED <<not_empty, not_full>>
       ELSE /\ IF call[t] \in PutCalls
               THEN not_empty' = n.rest /\ UNCHANGED not_full
               ELSE not_full' = n.rest /\ UNCHANGED not_empty
            /\ pc' = [u \in Threads |-> IF u = t THEN "release"
                                        ELSE IF u \in n.woken THEN "woken"
                                        ELSE pc[u]]
            /\ UNCHANGED loc
    /\ UNCHANGED <<bindvars, export_queue_set, maxsize, buf, mutex, call, arg, ret,
                   accepted, delivered>>

\* leaving the with block: Lock.release(), whose error replaces what the block
\* was returning or raising
Release(t) ==
    LET exc == LockRelease(mutex) IN
    /\ pc[t] = "release"
    /\ mutex' = FALSE
    /\ IF exc # "" THEN Return(t, Raise(exc))
       ELSE IF call[t] = "peek"
       THEN /\ pc' = [pc EXCEPT ![t] = IF loc[t].do = "wait" THEN "wait" ELSE "peek_read"]
            /\ UNCHANGED <<call, arg, loc, ret>>
       ELSE Return(t, loc[t].res)
    /\ UNCHANGED <<bindvars, export_queue_set, maxsize, buf, not_empty, not_full,
                   accepted, delivered>>

\* peek, lines 340-341: queue_data[0], with no lock held
PeekRead(t) ==
    /\ pc[t] = "peek_read"
    /\ Return(t, GetPeekExport_peek_read(buf).res)
    /\ UNCHANGED <<bindvars, export_queue_set, maxsize, buf, mutex, not_empty,
                   not_full, accepted, delivered>>

\* a step inside the call thread t is in
Step(t) ==
    \/ Test(t)
    \/ Wait(t)
    \/ Act(t)
    \/ NotifyWaiter(t)
    \/ Release(t)
    \/ PeekRead(t)

ChanNext ==
    \/ \E t \in Threads, x \in Items : Put(t, x)
    \/ \E t \in Threads, x \in Items : TryPut(t, x)
    \/ \E t \in Threads : CanPut(t)
    \/ \E t \in Threads : Get(t)
    \/ \E t \in Threads : TryGet(t)
    \/ \E t \in Threads : CanGet(t)
    \/ \E t \in Threads : Peek(t)
    \/ \E t \in Threads : Acquire(t)
    \/ \E t \in Threads : Reacquire(t)
    \/ \E t \in Threads : Step(t)

ChanSpec == ChanInit /\ [][ChanNext]_vars

\* a thread inside a call keeps running, and a thread that asks for the lock
\* gets it if the lock is free again and again
FairChanSpec ==
    /\ ChanInit
    /\ [][ChanNext]_vars
    /\ \A t \in Threads : WF_vars(Step(t)) /\ SF_vars(Acquire(t)) /\ SF_vars(Reacquire(t))


(***************************************************************************)
(* Claims about the channel                                                *)
(***************************************************************************)
\* the threads blocked in a get() / in a put()
GetBlocked(t) == call[t] = "get" /\ pc[t] \in {"waiting", "woken"}
PutBlocked(t) == call[t] = "put" /\ pc[t] \in {"waiting", "woken"}

\* thread t takes the step that ends its call
Returns(t) == pc[t] # "idle" /\ pc'[t] = "idle"

\* thread t, in call c, takes the step at label
StepAt(t, c, label) == call[t] = c /\ pc[t] = label /\ pc'[t] # label

PutInProgress(x) == \E t \in Threads : call[t] \in PutCalls /\ arg[t] = x

====
